---- MODULE Spec2Model ----
(***************************************************************************)
(* Model of app/backend/app.py: the /chat route of the Quart blueprint,    *)
(* the before_request hook ensure_openai_token that guards it, and the     *)
(* NDJSON relay format_as_ndjson.                                          *)
(*                                                                         *)
(* The other routes, and a client that disconnects, are left out.          *)
(*                                                                         *)
(* Process-wide state: openai.api_type, openai.api_key, current_app.config *)
(* and the wall clock.  Per-request state: the position of the request in  *)
(* its coroutine (pc), its local variables (context), the downstream calls *)
(* it has made, and the response the client has received so far.           *)
(***************************************************************************)
EXTENDS Integers, Sequences, FiniteSets, TLC

(* ------------------------------------------------------------------ *)
(* Program constants                                                    *)
(* ------------------------------------------------------------------ *)
CONFIG_OPENAI_TOKEN == "openai_token"
CONFIG_CREDENTIAL == "azure_credential"
CONFIG_CHAT_APPROACH == "chat_approach"
CONFIG_AUTH_CLIENT == "auth_client"

\* the safety margin of `expires_on < time.time() + 60`
RefreshMargin == 60

(* ------------------------------------------------------------------ *)
(* Bounds of the model                                                  *)
(* ------------------------------------------------------------------ *)
\* seconds the clock advances in one Tick
TickStep == 30
\* the clock stops advancing here
MaxTime == 60
\* most events one Approach sequence produces
MaxEvents == 2

\* the two request coroutines that may be in flight together
Requests == {"r1", "r2"}

(* ------------------------------------------------------------------ *)
(* Values                                                               *)
(* ------------------------------------------------------------------ *)
\* openai.api_type is set outside this file (OPENAI_API_TYPE, or the Approach)
ApiTypes == {"azure", "azure_ad"}

\* lifetimes (seconds past its return) of the tokens get_token returns
TokenLifetimes == {90}

\* expiries of a first token stored before serving starts
SeedExpiries == {30, 90}

Token(v, e) == [token |-> v, expires_on |-> e]

Headers == {"Bearer alice", "Bearer bob"}

Messages == <<[role |-> "user", content |-> "hi"]>>

\* a JSON value: an object with its fields, or something that is no object
Obj(f) == [type |-> "object", fields |-> f]
NonObj(t) == [type |-> t, fields |-> [none |-> TRUE]]

\* request bodies: is_json is the Content-Type test, parsed the result of
\* get_json ("invalid" when the text does not parse)
Bodies ==
  { [is_json |-> FALSE, parsed |-> NonObj("invalid")],
    [is_json |-> TRUE, parsed |-> NonObj("invalid")],
    [is_json |-> TRUE, parsed |-> NonObj("array")],
    [is_json |-> TRUE, parsed |-> Obj([stream |-> FALSE])],
    [is_json |-> TRUE, parsed |-> Obj([messages |-> Messages])],
    [is_json |-> TRUE, parsed |-> Obj([messages |-> Messages, stream |-> TRUE])],
    [is_json |-> TRUE, parsed |-> Obj([messages |-> Messages,
                                       context |-> NonObj("string")])],
    [is_json |-> TRUE, parsed |-> Obj([messages |-> Messages,
                                       context |-> Obj([auth_claims |-> "oid=admin"])])] }

\* dict.get(key, default)
Get(d, k, default) == IF k \in DOMAIN d THEN d[k] ELSE default

EmptyDict == [k \in {} |-> TRUE]

\* d[k] = v on a dict
Put(d, k, v) == (k :> v) @@ d

(* ------------------------------------------------------------------ *)
(* json.dumps(event, ensure_ascii=False)                                *)
(* An event is a dict of string values, kept as a sequence of           *)
(* <<key, characters>> pairs in insertion order.                        *)
(* ------------------------------------------------------------------ *)
Events ==
  { <<>>,
    << <<"delta", <<"h", "\"", "\n">> >>, <<"role", <<"a">> >> >> }

\* the escapes json.dumps applies inside a string
EscapeChar(c) ==
  CASE c = "\n" -> "\\n"
    [] c = "\"" -> "\\\""
    [] c = "\\" -> "\\\\"
    [] OTHER -> c

RECURSIVE DumpsChars(_)
DumpsChars(cs) ==
  IF cs = <<>> THEN "" ELSE EscapeChar(Head(cs)) \o DumpsChars(Tail(cs))

DumpsString(cs) == "\"" \o DumpsChars(cs) \o "\""

RECURSIVE DumpsItems(_)
DumpsItems(items) ==
  IF items = <<>> THEN ""
  ELSE "\"" \o Head(items)[1] \o "\": " \o DumpsString(Head(items)[2])
       \o (IF Tail(items) = <<>> THEN "" ELSE ", " \o DumpsItems(Tail(items)))

json_dumps(event) == "{" \o DumpsItems(event) \o "}"

\* the relay with the line terminator forgotten
format_as_ndjson_NoNewline(event) == json_dumps(event)

\* one step of format_as_ndjson: the line yielded for an event
format_as_ndjson(event) == json_dumps(event) \o "\n"

(* ------------------------------------------------------------------ *)
(* Exceptions and str(e)                                                *)
(* ------------------------------------------------------------------ *)
Exc(t, a) == [type |-> t, args |-> a]
NoExc == Exc("none", <<>>)

\* what the Approach may raise
ApproachErrors ==
  { Exc("Exception", <<>>),
    Exc("Exception", <<"quota exceeded">>),
    Exc("KeyError", <<"choices">>) }

\* str(e): no argument gives "", KeyError gives the repr of its key
str(e) ==
  IF e.args = <<>> THEN ""
  ELSE IF e.type = "KeyError" THEN "'" \o e.args[1] \o "'"
  ELSE e.args[1]

(* ------------------------------------------------------------------ *)
(* Responses                                                            *)
(* ------------------------------------------------------------------ *)
NoDoc == [none |-> TRUE]

Response(s, m, d, to, st) ==
  [status |-> s, mode |-> m, doc |-> d, text |-> "", timeout |-> to, state |-> st]

NoResponse == Response(0, "none", NoDoc, "default", "pending")

\* jsonify(doc), status
Jsonify(doc, status) == Response(status, "json", doc, "default", "complete")

\* Quart's answer to an exception no handler catches (HTTP status of the
\* exception, 500 when it is no HTTPException)
Unhandled(status) == Response(status, "html", NoDoc, "default", "complete")

\* the except branch with the status forgotten
ErrorEnvelope_NoStatus(e) == Jsonify([error |-> str(e)], 200)

\* the except branch of chat: jsonify({"error": str(e)}), 500
ErrorEnvelope(e) == Jsonify([error |-> str(e)], 500)

(* ------------------------------------------------------------------ *)
(* Collaborators outside this file                                      *)
(* ------------------------------------------------------------------ *)
\* AuthenticationHelper.get_auth_claims_if_enabled(headers)
get_auth_claims_if_enabled(headers) ==
  CASE headers = "Bearer alice" -> "oid=alice"
    [] headers = "Bearer bob" -> "oid=bob"
    [] OTHER -> "anonymous"

\* what approach.run may return: a dict, or an async generator of events
RunResult(kind, d, e) == [kind |-> kind, dict |-> d, exc |-> e]
NoResult == RunResult("none", NoDoc, NoExc)
ApproachResults ==
  { RunResult("dict", [answer |-> "hello"], NoExc),
    RunResult("dict", [answer |-> "", thoughts |-> "none"], NoExc),
    RunResult("sequence", NoDoc, NoExc) }

NoArgs == [messages |-> <<>>, stream |-> FALSE, context |-> NonObj("none"),
           session_state |-> "None"]

(* ------------------------------------------------------------------ *)
(* State                                                                *)
(* ------------------------------------------------------------------ *)
VARIABLES
  apiType,    \* openai.api_type
  apiKey,     \* openai.api_key
  config,     \* current_app.config
  now,        \* time.time()
  minted,     \* tokens the credential has returned so far
  installed,  \* history: the token values written by ensure_openai_token
  pc,         \* where each request is
  request,    \* the request: its body and its headers
  context,    \* chat's local variable context
  gate,       \* history: what ensure_openai_token found and how it ended
  calls,      \* history: the collaborators the request has invoked
  runArgs,    \* history: the arguments the request passed to approach.run
  result,     \* what approach.run returned to the request
  produced,   \* the events the request's generator has produced so far
  resp        \* the response as the client has received it so far

vars == <<apiType, apiKey, config, now, minted, installed, pc, request, context,
          gate, calls, runArgs, result, produced, resp>>

shared == <<apiType, apiKey, config, now, minted, installed>>

\* found: the state of the token slot when the hook read it; token: the stored
\* token's value then; outcome: how the hook ended
Gate(f, t, o) == [found |-> f, token |-> t, outcome |-> o]

NoRequest == [body |-> [is_json |-> FALSE, parsed |-> NonObj("none")], headers |-> ""]

\* current_app.config after setup_clients: the token key is not among them
StartupConfig ==
  [k \in {CONFIG_CREDENTIAL, CONFIG_AUTH_CLIENT, CONFIG_CHAT_APPROACH} |-> k]

\* the same with a first token stored under CONFIG_OPENAI_TOKEN.  Nothing in
\* app.py stores one; the specification has the token created at startup, and
\* the states below ensure_openai_token's KeyError are reached only from here.
SeededConfig(e) == Put(StartupConfig, CONFIG_OPENAI_TOKEN, Token("t0", e))

\* After setup_clients: the config without a token, in either auth mode; and,
\* for the azure_ad mode, the config with a first token and openai.api_key
\* holding it.
Init ==
  /\ apiType \in ApiTypes
  /\ \/ config = StartupConfig /\ apiKey = "None"
     \/ /\ apiType = "azure_ad"
        /\ \E e \in SeedExpiries : config = SeededConfig(e)
        /\ apiKey = "t0"
  /\ now = 0
  /\ minted = 0
  /\ installed = <<>>
  /\ pc = [r \in Requests |-> "idle"]
  /\ request = [r \in Requests |-> NoRequest]
  /\ context = [r \in Requests |-> NonObj("none")]
  /\ gate = [r \in Requests |-> Gate("none", "", "pending")]
  /\ calls = [r \in Requests |-> {}]
  /\ runArgs = [r \in Requests |-> NoArgs]
  /\ result = [r \in Requests |-> NoResult]
  /\ produced = [r \in Requests |-> <<>>]
  /\ resp = [r \in Requests |-> NoResponse]

\* the request ends with response x
Finish(r, x) ==
  /\ resp' = [resp EXCEPT ![r] = x]
  /\ pc' = [pc EXCEPT ![r] = "done"]

Goto(r, where) == pc' = [pc EXCEPT ![r] = where]

Call(r, what) == calls' = [calls EXCEPT ![r] = @ \cup {what}]

(* ------------------------------------------------------------------ *)
(* The clock and the arrival of requests                                *)
(* ------------------------------------------------------------------ *)
Tick ==
  /\ now + TickStep <= MaxTime
  /\ now' = now + TickStep
  /\ UNCHANGED <<apiType, apiKey, config, minted, installed, pc, request, context,
                 gate, calls, runArgs, result, produced, resp>>

\* POST /chat arrives
Arrive(r) ==
  /\ pc[r] = "idle"
  /\ \E b \in Bodies, h \in Headers :
       request' = [request EXCEPT ![r] = [body |-> b, headers |-> h]]
  /\ Goto(r, "before_request")
  /\ UNCHANGED <<shared, context, gate, calls, runArgs, result, produced, resp>>

(* ------------------------------------------------------------------ *)
(* ensure_openai_token, the before_request hook                         *)
(* ------------------------------------------------------------------ *)
\* the token stored but openai.api_key left as it was
InstallToken_ConfigOnly(tok) ==
  /\ config' = Put(config, CONFIG_OPENAI_TOKEN, tok)
  /\ apiKey' = apiKey

\* the two assignments after get_token returns, with no await between them
InstallToken(tok) ==
  /\ config' = Put(config, CONFIG_OPENAI_TOKEN, tok)
  /\ apiKey' = tok.token

\* up to the await of get_token
EnsureOpenaiToken(r) ==
  /\ pc[r] = "before_request"
  /\ IF apiType # "azure_ad"
     THEN /\ gate' = [gate EXCEPT ![r] = Gate("skipped", "", "passed")]
          /\ Goto(r, "chat")
          /\ UNCHANGED <<calls, resp>>
     ELSE IF CONFIG_OPENAI_TOKEN \notin DOMAIN config
     THEN \* KeyError from current_app.config[CONFIG_OPENAI_TOKEN]
          /\ gate' = [gate EXCEPT ![r] = Gate("absent", "", "KeyError")]
          /\ Finish(r, Unhandled(500))
          /\ UNCHANGED calls
     ELSE IF config[CONFIG_OPENAI_TOKEN].expires_on < now + RefreshMargin
     THEN /\ gate' = [gate EXCEPT ![r] =
                            Gate("stale", config[CONFIG_OPENAI_TOKEN].token, "pending")]
          /\ Call(r, "get_token")
          /\ Goto(r, "get_token")
          /\ UNCHANGED resp
     ELSE /\ gate' = [gate EXCEPT ![r] =
                            Gate("fresh", config[CONFIG_OPENAI_TOKEN].token, "passed")]
          /\ Goto(r, "chat")
          /\ UNCHANGED <<calls, resp>>
  /\ UNCHANGED <<shared, request, context, runArgs, result, produced>>

\* get_token returns a token that is valid when it returns
GetTokenReturns(r) ==
  /\ pc[r] = "get_token"
  /\ \E life \in TokenLifetimes :
       LET tok == Token("t" \o ToString(minted + 1), now + life)
       IN /\ InstallToken(tok)
          /\ installed' = Append(installed, tok.token)
  /\ minted' = minted + 1
  /\ gate' = [gate EXCEPT ![r].outcome = "passed"]
  /\ Goto(r, "chat")
  /\ UNCHANGED <<apiType, now, request, context, calls, runArgs, result, produced, resp>>

\* the failure of get_token swallowed, the request let through
GetTokenRaises_Swallowed(r) ==
  /\ pc[r] = "get_token"
  /\ gate' = [gate EXCEPT ![r].outcome = "get_token raised"]
  /\ Goto(r, "chat")
  /\ UNCHANGED <<shared, request, context, calls, runArgs, result, produced, resp>>

\* get_token raises: nothing in the hook catches it
GetTokenRaises(r) ==
  /\ pc[r] = "get_token"
  /\ gate' = [gate EXCEPT ![r].outcome = "get_token raised"]
  /\ Finish(r, Unhandled(500))
  /\ UNCHANGED <<shared, request, context, calls, runArgs, result, produced>>

(* ------------------------------------------------------------------ *)
(* chat, the handler of POST /chat                                      *)
(* ------------------------------------------------------------------ *)
\* context.setdefault("auth_claims", claims): the client's entry wins
AttachClaims_KeepsClient(ctx, claims) ==
  IF "auth_claims" \in DOMAIN ctx THEN ctx ELSE Put(ctx, "auth_claims", claims)

\* context["auth_claims"] = claims
AttachClaims(ctx, claims) == Put(ctx, "auth_claims", claims)

\* the response chosen by the request's stream flag
ResponseMode_ByFlag(res, stream) == IF stream THEN "ndjson" ELSE "json"

\* isinstance(result, dict) chooses the response; stream is the request's flag
ResponseMode(res, stream) == IF res.kind = "dict" THEN "json" ELSE "ndjson"

\* request.is_json, request.get_json() and request_json.get("context", {})
ChatParse(r) ==
  LET body == request[r].body
  IN /\ pc[r] = "chat"
     /\ IF ~body.is_json
        THEN /\ Finish(r, Jsonify([error |-> "request must be json"], 415))
             /\ UNCHANGED context
        ELSE IF body.parsed.type = "invalid"
        THEN \* get_json raises BadRequest
             /\ Finish(r, Unhandled(400))
             /\ UNCHANGED context
        ELSE IF body.parsed.type # "object"
        THEN \* AttributeError: the value has no get
             /\ Finish(r, Unhandled(500))
             /\ UNCHANGED context
        ELSE /\ context' = [context EXCEPT ![r] =
                              Get(body.parsed.fields, "context", Obj(EmptyDict))]
             /\ Goto(r, "auth")
             /\ UNCHANGED resp
     /\ UNCHANGED <<shared, request, gate, calls, runArgs, result, produced>>

\* context["auth_claims"] = await auth_helper.get_auth_claims_if_enabled(headers)
ChatAuth(r) ==
  /\ pc[r] = "auth"
  /\ Call(r, "get_auth_claims_if_enabled")
  /\ IF context[r].type # "object"
     THEN \* TypeError: the context does not support item assignment
          /\ Finish(r, Unhandled(500))
          /\ UNCHANGED context
     ELSE /\ context' = [context EXCEPT ![r] =
                           Obj(AttachClaims(@.fields,
                                            get_auth_claims_if_enabled(request[r].headers)))]
          /\ Goto(r, "run")
          /\ UNCHANGED resp
  /\ UNCHANGED <<shared, request, gate, runArgs, result, produced>>

\* request_json["messages"] raises KeyError inside the try, before run is called
ChatMessagesMissing(r) ==
  /\ pc[r] = "run"
  /\ "messages" \notin DOMAIN request[r].body.parsed.fields
  /\ Finish(r, ErrorEnvelope(Exc("KeyError", <<"messages">>)))
  /\ UNCHANGED <<shared, request, context, gate, calls, runArgs, result, produced>>

\* the arguments of approach.run
RunCall(r) ==
  LET f == request[r].body.parsed.fields
  IN /\ "messages" \in DOMAIN f
     /\ Call(r, "run")
     /\ runArgs' = [runArgs EXCEPT ![r] =
                      [messages |-> f.messages,
                       stream |-> Get(f, "stream", FALSE),
                       context |-> context[r],
                       session_state |-> Get(f, "session_state", "None")]]

\* approach.run returns res
ChatRunReturns(r) ==
  /\ pc[r] = "run"
  /\ RunCall(r)
  /\ \E res \in ApproachResults :
       /\ result' = [result EXCEPT ![r] = res]
       /\ IF ResponseMode(res, runArgs'[r].stream) = "json"
          THEN Finish(r, Jsonify(res.dict, 200))
          ELSE \* make_response(format_as_ndjson(result)), response.timeout = None
               /\ resp' = [resp EXCEPT ![r] =
                             Response(200, "ndjson", NoDoc, "None", "pending")]
               /\ Goto(r, "streaming")
  /\ UNCHANGED <<shared, request, context, gate, produced>>

\* approach.run raises e
ChatRunRaises(r) ==
  /\ pc[r] = "run"
  /\ RunCall(r)
  /\ \E e \in ApproachErrors :
       /\ result' = [result EXCEPT ![r] = RunResult("raised", NoDoc, e)]
       /\ Finish(r, ErrorEnvelope(e))
  /\ UNCHANGED <<shared, request, context, gate, produced>>

(* ------------------------------------------------------------------ *)
(* format_as_ndjson, consumed by the server after chat has returned     *)
(* ------------------------------------------------------------------ *)
\* the generator yields an event and the relay yields its line
StreamYield(r) ==
  /\ pc[r] = "streaming"
  /\ result[r].kind = "sequence"
  /\ Len(produced[r]) < MaxEvents
  /\ \E e \in Events :
       /\ produced' = [produced EXCEPT ![r] = Append(@, e)]
       /\ resp' = [resp EXCEPT ![r].text = @ \o format_as_ndjson(e)]
  /\ UNCHANGED <<shared, pc, request, context, gate, calls, runArgs, result>>

\* the generator is exhausted
StreamExhausted(r) ==
  /\ pc[r] = "streaming"
  /\ result[r].kind = "sequence"
  /\ resp' = [resp EXCEPT ![r].state = "complete"]
  /\ Goto(r, "done")
  /\ UNCHANGED <<shared, request, context, gate, calls, runArgs, result, produced>>

\* the relay catching the failure and reporting it as a last line
StreamRaises_ErrorLine(r) ==
  /\ pc[r] = "streaming"
  /\ result[r].kind = "sequence"
  /\ result' = [result EXCEPT ![r] = RunResult("broken", NoDoc, NoExc)]
  /\ resp' = [resp EXCEPT ![r].text = @ \o "{\"error\": \"stream failed\"}\n",
                          ![r].state = "complete"]
  /\ Goto(r, "done")
  /\ UNCHANGED <<shared, request, context, gate, calls, runArgs, produced>>

\* the generator raises: the relay has no handler, and chat has returned
StreamRaises(r) ==
  /\ pc[r] = "streaming"
  /\ result[r].kind = "sequence"
  /\ result' = [result EXCEPT ![r] = RunResult("broken", NoDoc, NoExc)]
  /\ resp' = [resp EXCEPT ![r].state = "truncated"]
  /\ Goto(r, "done")
  /\ UNCHANGED <<shared, request, context, gate, calls, runArgs, produced>>

Next ==
  \/ Tick
  \/ \E r \in Requests :
       \/ Arrive(r)
       \/ EnsureOpenaiToken(r)
       \/ GetTokenReturns(r)
       \/ GetTokenRaises(r)
       \/ ChatParse(r)
       \/ ChatAuth(r)
       \/ ChatMessagesMissing(r)
       \/ ChatRunReturns(r)
       \/ ChatRunRaises(r)
       \/ StreamYield(r)
       \/ StreamExhausted(r)
       \/ StreamRaises(r)

Spec == Init /\ [][Next]_vars

(* ------------------------------------------------------------------ *)
(* Properties                                                           *)
(* ------------------------------------------------------------------ *)
Done(r) == pc[r] = "done"

\* the body does not have the ChatRequest shape
Malformed(body) ==
  \/ ~body.is_json
  \/ body.parsed.type # "object"
  \/ "messages" \notin DOMAIN body.parsed.fields

\* the serialized lines as Python prints them, written out by hand
ExpectedLine(e) ==
  IF e = <<>> THEN "{}\n"
  ELSE "{\"delta\": \"h\\\"\\n\", \"role\": \"a\"}\n"

RECURSIVE ExpectedBody(_)
ExpectedBody(events) ==
  IF events = <<>> THEN "" ELSE ExpectedLine(Head(events)) \o ExpectedBody(Tail(events))

\* str(e) of the exceptions of ApproachErrors, written out by hand
ExpectedMessage(e) ==
  CASE e = Exc("Exception", <<>>) -> ""
    [] e = Exc("Exception", <<"quota exceeded">>) -> "quota exceeded"
    [] e = Exc("KeyError", <<"choices">>) -> "'choices'"

StoredToken == config[CONFIG_OPENAI_TOKEN]

\* C1: every POST /chat whose body is not JSON is answered 415 with
\* {"error": "request must be json"}, in every auth mode and whatever the
\* stored credential is.
C1_NonJsonIs415 ==
  \A r \in Requests :
    (Done(r) /\ ~request[r].body.is_json)
      => resp[r] = Jsonify([error |-> "request must be json"], 415)

\* C2: a body that does not have the ChatRequest shape is answered 415, and
\* no collaborator (get_token, get_auth_claims_if_enabled, run) has been
\* invoked for the request.  Stated for the static-key modes, where
\* ensure_openai_token returns at once and cannot be what fails.
C2_MalformedIs415BeforeDownstream ==
  \A r \in Requests :
    (Done(r) /\ Malformed(request[r].body) /\ apiType # "azure_ad")
      => (resp[r].status = 415 /\ calls[r] = {})

\* C3: while and after a sequence returned by approach.run is relayed, the
\* response body is the concatenation of json(e) + "\n" over the events
\* produced so far, in production order, each once; the response is complete
\* exactly when the sequence is exhausted.
C3_StreamIsConcatenation ==
  \A r \in Requests :
    result[r].kind = "sequence"
      => /\ resp[r].status = 200
         /\ resp[r].mode = "ndjson"
         /\ resp[r].text = ExpectedBody(produced[r])
         /\ (resp[r].state = "complete") = Done(r)
         /\ resp[r].state \in {"pending", "complete"}

C3_Witness ==
  \E r \in Requests :
    /\ Done(r)
    /\ result[r].kind = "sequence"
    /\ produced[r] = << << <<"delta", <<"h", "\"", "\n">> >>, <<"role", <<"a">> >> >>, <<>> >>
    /\ resp[r].text = "{\"delta\": \"h\\\"\\n\", \"role\": \"a\"}\n{}\n"

\* C4 as claimed: any exception raised inside the Approach, by run itself or
\* while the sequence is produced, gives status 500 and a body {"error": s}
\* with s not empty.
C4_AnyApproachErrorIs500 ==
  \A r \in Requests :
    (Done(r) /\ result[r].kind \in {"raised", "broken"})
      => /\ resp[r].status = 500
         /\ resp[r].mode = "json"
         /\ "error" \in DOMAIN resp[r].doc
         /\ resp[r].doc.error # ""

\* C4 as amended: an exception e raised by the run call itself gives status
\* 500 and the body {"error": str(e)}; the message is empty when str(e) is.
C4_RunErrorIs500 ==
  \A r \in Requests :
    result[r].kind = "raised"
      => /\ Done(r)
         /\ resp[r] = Jsonify([error |-> ExpectedMessage(result[r].exc)], 500)

C4_Witness ==
  \E r \in Requests :
    /\ result[r] = RunResult("raised", NoDoc, Exc("Exception", <<>>))
    /\ resp[r].status = 500
    /\ resp[r].doc = [error |-> ""]

C6_AbsentOrStaleIsRefreshed ==
  \A r \in Requests :
    gate[r].found \in {"absent", "stale"}
      => /\ "get_token" \in calls[r]
         /\ ("run" \in calls[r] => gate[r].outcome = "passed")

C8_ResultKindDecidesMode ==
  \A r \in Requests :
    /\ result[r].kind = "dict"
         => /\ Done(r)
            /\ resp[r] = Jsonify(result[r].dict, 200)
    /\ result[r].kind \in {"sequence", "broken"}
         => /\ resp[r].mode = "ndjson"
            /\ resp[r].status = 200
            /\ resp[r].timeout = "None"

C8_Witness ==
  \E r, q \in Requests :
    /\ runArgs[r].stream
    /\ result[r].kind = "dict"
    /\ resp[r].doc = [answer |-> "hello"]
    /\ ~runArgs[q].stream
    /\ result[q].kind = "sequence"
    /\ resp[q].mode = "ndjson"
    /\ Len(produced[q]) > 0

\* C9: when the sequence raises after k events, the client has the status 200
\* already sent and exactly the k lines produced, in order, and the stream is
\* cut there: no error line, no error envelope.
C9_MidStreamFailureTruncates ==
  \A r \in Requests :
    result[r].kind = "broken"
      => /\ Done(r)
         /\ resp[r].status = 200
         /\ resp[r].doc = NoDoc
         /\ resp[r].text = ExpectedBody(produced[r])
         /\ resp[r].state = "truncated"

C9_Witness ==
  \E r, q \in Requests :
    /\ result[r].kind = "broken"
    /\ produced[r] = << <<>> >>
    /\ resp[r].text = "{}\n"
    /\ result[q].kind = "broken"
    /\ produced[q] = <<>>
    /\ resp[q].text = ""

\* C10: the auth_claims approach.run receives are those the
\* AuthenticationHelper resolved from the request's headers, so two requests
\* with the same headers receive the same auth_claims whatever auth_claims
\* their bodies carried.
C10_ClaimsComeFromHeaders ==
  \A r, q \in Requests :
    ("run" \in calls[r] /\ "run" \in calls[q])
      => /\ runArgs[r].context.fields.auth_claims
              = get_auth_claims_if_enabled(request[r].headers)
         /\ request[r].headers = request[q].headers
              => runArgs[r].context.fields.auth_claims
                   = runArgs[q].context.fields.auth_claims

C10_Witness ==
  \E r, q \in Requests :
    /\ "run" \in calls[r] /\ "run" \in calls[q]
    /\ request[r].headers = "Bearer alice"
    /\ request[q].headers = "Bearer alice"
    /\ request[r].body.parsed = Obj([messages |-> Messages])
    /\ request[q].body.parsed = Obj([messages |-> Messages,
                                     context |-> Obj([auth_claims |-> "oid=admin"])])
    /\ runArgs[r].context = Obj([auth_claims |-> "oid=alice"])
    /\ runArgs[q].context = Obj([auth_claims |-> "oid=alice"])

====
